---- MODULE Spec2Model ----
(***************************************************************************)
(* Model of the TradingView screenshot pipeline:                           *)
(*   src/screenshot_pipeline.py  ScreenshotPipeline (start, stop, the      *)
(*                               signal handler, capture_screenshots_job)  *)
(*   src/tradingview_scraper.py  TradingViewScraper (start_browser,        *)
(*                               close_browser, capture_screenshot,        *)
(*                               capture_all_screenshots)                  *)
(*   src/config.py               CRYPTO_SYMBOLS                            *)
(*   src/test_pipeline.py        test_pipeline (specification TestSpec)    *)
(*                                                                         *)
(* One asyncio event loop runs the main task (main -> start -> stop) and   *)
(* the tasks the interval scheduler creates for capture_screenshots_job.   *)
(* Every await of the source is a step of its own, so the tasks interleave *)
(* exactly at the awaits.  The signal handler is installed with            *)
(* signal.signal and so runs between any two steps.                        *)
(*                                                                         *)
(* The browser engine and the scheduler are libraries: a browser call      *)
(* either succeeds or raises (timeout, error), and it can only raise once  *)
(* the browser has been closed.  Whether scheduler.shutdown() cancels a    *)
(* job coroutine that is still running depends on the library version, so  *)
(* both outcomes are modelled.                                             *)
(***************************************************************************)
EXTENDS Integers, Sequences, FiniteSets, TLC

\* src/config.py:16-20, in dict (insertion) order
CRYPTO_SYMBOLS == <<"BTC", "ETH", "SOL">>

SymbolNames == {CRYPTO_SYMBOLS[i] : i \in 1..Len(CRYPTO_SYMBOLS)}

\* the two ways capture_screenshots_job is entered: awaited by start()
\* (line 107) and as the scheduler's job (lines 91-97)
RunIds == {"imm", "tick"}

VARIABLES
    pc,          \* position of the main task in main()/start()/stop()
    running,     \* ScreenshotPipeline.running
    schedRunning,\* scheduler.running
    browser,     \* TradingViewScraper.browser: "none" (None), "open", "closed"
    pages,       \* pages open in the browser, named by the run that opened them
    run,         \* per run: the frame of capture_screenshots_job and below
    lastTick,    \* what the scheduler did with its latest interval tick
    sigEarly,    \* a signal was handled before start() set running to True
    sigRunning,  \* a signal was handled while running was True
    startFailed, \* start_browser raised
    exitStatus,  \* process exit status, -1 while the process lives
    closeCalls,  \* number of times browser.close() has been called
    testPhase    \* test_pipeline only: "none", then "timeout" once wait_for
                 \* has cancelled start(), then "second_stop"

vars == <<pc, running, schedRunning, browser, pages, run, lastTick,
          sigEarly, sigRunning, startFailed, exitStatus, closeCalls,
          testPhase>>

\* the empty results dict of capture_all_screenshots (line 129)
EmptyDict == [s \in {} |-> "None"]

IdleRun == [st |-> "idle", idx |-> 1, step |-> "-", page |-> FALSE,
            ret |-> "-", results |-> EmptyDict, navFailed |-> {},
            written |-> {}, cancelled |-> FALSE, attempts |-> <<>>,
            bestEffortFailed |-> FALSE, summary |-> <<0, 0>>,
            lines |-> <<>>]

\* positions of the main task before line 101 has run
EarlyPcs == {"start_browser", "add_job", "set_running"}

Init ==
    /\ pc = "start_browser"
    /\ running = FALSE
    /\ schedRunning = FALSE
    /\ browser = "none"
    /\ pages = {}
    /\ run = [r \in RunIds |-> IdleRun]
    /\ lastTick = "none"
    /\ sigEarly = FALSE
    /\ sigRunning = FALSE
    /\ startFailed = FALSE
    /\ exitStatus = -1
    /\ closeCalls = 0
    /\ testPhase = "none"

----------------------------------------------------------------------------
(* TradingViewScraper                                                      *)

\* `if not self.browser` (line 91) and `if self.browser` (line 53): the
\* attribute is tested for None, not for being a live browser
BrowserInitialized(b) == b # "none"

\* outcomes of one awaited browser call: TRUE returns, FALSE raises
BrowserCall == IF browser = "open" THEN {TRUE, FALSE} ELSE {FALSE}

\* a loop that records successes only
PutUnlessFailed(d, k, v) ==
    IF v = "None"
    THEN d
    ELSE [x \in DOMAIN d \cup {k} |-> IF x = k THEN v ELSE d[x]]

\* results[symbol] = value (lines 134, 137)
Put(d, k, v) == [x \in DOMAIN d \cup {k} |-> IF x = k THEN v ELSE d[x]]

\* an except clause that falls through to the path
ExceptReturnsPath == "path"

\* what the `except Exception` clause of capture_screenshot returns (line 122)
ExceptReturn == "None"

\* a capture_screenshot without its finally clause
PageCloseSkipped(ps, r, page) == ps

\* `finally: if page: await page.close()` (lines 123-125)
PageClose(ps, r, page) == IF page THEN ps \ {r} ELSE ps

\* a loop that tries a failed symbol again
RetryFailed(i, ret) == IF ret = "None" THEN i ELSE i + 1

\* `for symbol, url in CRYPTO_SYMBOLS.items()` (line 131): the loop goes to
\* the next symbol whatever the capture of symbol i gave
NextIndex(i, ret) == i + 1

\* the for loop of capture_all_screenshots from its i-th symbol on, up to
\* the first await: capture_screenshot is called (line 133); a call that
\* raises at line 92 is caught at line 135 and the loop goes on; after the
\* last symbol the dict is returned
RECURSIVE Iterate(_, _, _)
Iterate(f, i, b) ==
    IF i > Len(CRYPTO_SYMBOLS)
    THEN [f EXCEPT !.st = "logging", !.idx = i, !.step = "-",
                   !.page = FALSE, !.ret = "-", !.bestEffortFailed = FALSE]
    ELSE IF ~BrowserInitialized(b)
    THEN Iterate([f EXCEPT !.results = Put(@, CRYPTO_SYMBOLS[i], "None"),
                           !.attempts = Append(@, CRYPTO_SYMBOLS[i])],
                 NextIndex(i, "None"), b)
    ELSE [f EXCEPT !.idx = i, !.step = "new_page", !.page = FALSE,
                   !.ret = "-", !.attempts = Append(@, CRYPTO_SYMBOLS[i]),
                   !.bestEffortFailed = FALSE]

\* capture_screenshots_job entered (lines 62-65): capture_all_screenshots
\* starts with an empty dict
StartJob(b) == Iterate([IdleRun EXCEPT !.st = "capturing"], 1, b)

Sym(r) == CRYPTO_SYMBOLS[run[r].idx]

\* a start() that yields to the event loop before its immediate run
SuspendedBeforeInitial ==
    pc \in {"initial_capture", "await_initial", "sleep", "close_browser",
            "closing", "cancelling"}

\* the main task is suspended in an await (lines 107, 111, 127/54), so the
\* event loop can resume other tasks and run the scheduler's timer;
\* "cancelling" is start() cancelled inside its immediate run, whose finally
\* clause awaits page.close()
MainSuspended ==
    pc \in {"await_initial", "sleep", "close_browser", "closing", "cancelling"}

AtStep(r, step) ==
    /\ MainSuspended
    /\ run[r].st = "capturing"
    /\ run[r].step = step
    /\ ~run[r].cancelled

\* the rest of the state, which no scraper step touches
ScraperFrame == UNCHANGED <<pc, running, schedRunning, browser, lastTick,
                            sigEarly, sigRunning, startFailed, exitStatus,
                            closeCalls, testPhase>>

\* page = await self.browser.new_page()   (line 97)
NewPage(r) ==
    /\ AtStep(r, "new_page")
    /\ \E ok \in BrowserCall :
         IF ok
         THEN /\ run' = [run EXCEPT ![r].page = TRUE, ![r].step = "viewport"]
              /\ pages' = pages \cup {r}
         ELSE /\ run' = [run EXCEPT ![r].ret = ExceptReturn,
                                    ![r].step = "close"]
              /\ pages' = pages
    /\ ScraperFrame

\* await page.set_viewport_size(...)   (line 98)
SetViewport(r) ==
    /\ AtStep(r, "viewport")
    /\ \E ok \in BrowserCall :
         IF ok
         THEN run' = [run EXCEPT ![r].step = "goto"]
         ELSE run' = [run EXCEPT ![r].ret = ExceptReturn, ![r].step = "close"]
    /\ pages' = pages
    /\ ScraperFrame

\* await page.goto(url, timeout=BROWSER_TIMEOUT)   (line 101)
Goto(r) ==
    /\ AtStep(r, "goto")
    /\ \E ok \in BrowserCall :
         IF ok
         THEN run' = [run EXCEPT ![r].step = "wait"]
         ELSE run' = [run EXCEPT ![r].ret = ExceptReturn, ![r].step = "close",
                                 ![r].navFailed = @ \cup {Sym(r)}]
    /\ pages' = pages
    /\ ScraperFrame

\* a _wait_for_chart_load that lets its exception out
AfterWaitAborts(ok) == IF ok THEN "configure" ELSE "close"

\* where capture_screenshot goes after _wait_for_chart_load: the helper
\* catches its own exception (lines 67-69), so on to line 107 either way
AfterWait(ok) == "configure"

\* where capture_screenshot goes after _configure_chart_view: the helper
\* catches its own exception (lines 86-87), so on to line 110 either way
AfterConfigure(ok) == "screenshot"

\* await self._wait_for_chart_load(page)   (lines 104, 57-69)
WaitForChartLoad(r) ==
    /\ AtStep(r, "wait")
    /\ \E ok \in BrowserCall :
         run' = [run EXCEPT ![r].step = AfterWait(ok),
                            ![r].bestEffortFailed = @ \/ ~ok,
                            ![r].ret = IF AfterWait(ok) = "close"
                                       THEN ExceptReturn ELSE @]
    /\ pages' = pages
    /\ ScraperFrame

\* await self._configure_chart_view(page)   (lines 107, 71-87)
ConfigureChartView(r) ==
    /\ AtStep(r, "configure")
    /\ \E ok \in BrowserCall :
         run' = [run EXCEPT ![r].step = AfterConfigure(ok),
                            ![r].bestEffortFailed = @ \/ ~ok,
                            ![r].ret = IF AfterConfigure(ok) = "close"
                                       THEN ExceptReturn ELSE @]
    /\ pages' = pages
    /\ ScraperFrame

\* await page.screenshot(path=...) and return str(filepath)  (lines 115-118)
Screenshot(r) ==
    /\ AtStep(r, "screenshot")
    /\ \E ok \in BrowserCall :
         IF ok
         THEN run' = [run EXCEPT ![r].ret = "path", ![r].step = "close",
                                 ![r].written = @ \cup {Sym(r)}]
         ELSE run' = [run EXCEPT ![r].ret = ExceptReturn, ![r].step = "close"]
    /\ pages' = pages
    /\ ScraperFrame

\* the finally clause (lines 123-125), the return to capture_all_screenshots
\* (line 134) and the loop up to the next await; a CancelledError that is
\* passing through ends the job instead.  page.close() leaves the page
\* closed also when the browser has gone before it (the page went with it).
Finally(r) ==
    /\ AtStep(r, "close")
    /\ pages' = PageClose(pages, r, run[r].page)
    /\ run' = [run EXCEPT ![r] =
                 IF @.ret = "cancel"
                 THEN IdleRun
                 ELSE Iterate([@ EXCEPT !.results = Put(@, Sym(r), run[r].ret)],
                              NextIndex(@.idx, @.ret), browser)]
    /\ ScraperFrame

\* the task of a cancelled job is resumed with CancelledError at the await
\* it is suspended in.  CancelledError is not an Exception, so line 120 does
\* not catch it: the finally clause runs and the error leaves the job.  In
\* the finally clause itself the close request is already with the browser.
CancelDelivered(r) ==
    /\ MainSuspended
    /\ run[r].st = "capturing"
    /\ run[r].cancelled
    /\ IF run[r].step = "close"
       THEN /\ pages' = PageClose(pages, r, run[r].page)
            /\ run' = [run EXCEPT ![r] = IdleRun]
       ELSE /\ pages' = pages
            /\ run' = [run EXCEPT ![r].cancelled = FALSE, ![r].ret = "cancel",
                                  ![r].step = "close"]
    /\ ScraperFrame

----------------------------------------------------------------------------
(* ScreenshotPipeline                                                      *)

\* self.running = False   (line 58)
SignalHandlerSets == FALSE

\* max_instances=1 (line 96): the scheduler counts the instances of the job
\* that it has started itself and that have not finished
MaxInstancesReached(rn) == rn["tick"].st # "idle"

\* a loop that never looks at the flag
LoopIgnoresFlag(rn) == TRUE

\* `while self.running` (line 110)
LoopContinues(rn) == rn

\* the process exit status: `asyncio.run(main())` returning gives 0, an
\* Exception that leaves main() gives sys.exit(1)   (lines 138-145)
ExitStatusOf(raised) == IF raised THEN 1 ELSE 0

\* what the except clauses of start() let through to its caller: line 115
\* catches every Exception, so nothing
StartPropagates(failed) == FALSE

MainFrame == UNCHANGED <<lastTick, sigEarly, sigRunning, testPhase>>

\* await self.scraper.start_browser() returns   (lines 88, 38-46)
StartBrowserOk ==
    /\ pc = "start_browser"
    /\ pc' = "add_job"
    /\ browser' = "open"
    /\ UNCHANGED <<running, schedRunning, pages, run, startFailed, exitStatus,
                   closeCalls>>
    /\ MainFrame

\* start_browser raises (lines 47-49); start() logs it at lines 115-116 and
\* goes on to its finally clause
StartBrowserFails ==
    /\ pc = "start_browser"
    /\ pc' = "finally"
    /\ startFailed' = TRUE
    /\ UNCHANGED <<running, schedRunning, browser, pages, run, exitStatus,
                   closeCalls>>
    /\ MainFrame

\* self.scheduler.add_job(...); self.scheduler.start()   (lines 91-100)
AddJobAndStart ==
    /\ pc = "add_job"
    /\ pc' = "set_running"
    /\ schedRunning' = TRUE
    /\ UNCHANGED <<running, browser, pages, run, startFailed, exitStatus,
                   closeCalls>>
    /\ MainFrame

\* self.running = True   (line 101)
SetRunning ==
    /\ pc = "set_running"
    /\ pc' = "initial_capture"
    /\ running' = TRUE
    /\ UNCHANGED <<schedRunning, browser, pages, run, startFailed, exitStatus,
                   closeCalls>>
    /\ MainFrame

\* await self.capture_screenshots_job()   (line 107): called directly, not
\* through the scheduler
InitialCapture ==
    /\ pc = "initial_capture"
    /\ pc' = "await_initial"
    /\ run' = [run EXCEPT !["imm"] = StartJob(browser)]
    /\ UNCHANGED <<running, schedRunning, browser, pages, startFailed,
                   exitStatus, closeCalls>>
    /\ MainFrame

\* a count that forgets its `if filepath`
SuccessfulCountsAll(res) == Cardinality(DOMAIN res)

\* successful = sum(1 for filepath in results.values() if filepath)
\* (line 68): a path is a non-empty string, None is falsy
Successful(res) == Cardinality({s \in DOMAIN res : res[s] # "None"})

\* total = len(results)   (line 69)
Total(res) == Cardinality(DOMAIN res)

\* results.items() (line 73): a dict iterates in insertion order, which is
\* the order of CRYPTO_SYMBOLS
Items(res) == SelectSeq(CRYPTO_SYMBOLS, LAMBDA s : s \in DOMAIN res)

\* the per-symbol log lines (lines 73-77)
LogLines(res) ==
    [i \in 1..Len(Items(res)) |->
        <<Items(res)[i],
          IF res[Items(res)[i]] # "None" THEN "ok" ELSE "failed">>]

\* capture_screenshots_job logs the summary and one line per symbol
\* (lines 68-77)
JobLog(r) ==
    /\ MainSuspended
    /\ run[r].st = "logging"
    /\ run' = [run EXCEPT ![r].st = "logged",
                          ![r].summary = <<Successful(run[r].results),
                                           Total(run[r].results)>>,
                          ![r].lines = LogLines(run[r].results)]
    /\ UNCHANGED <<pc, running, schedRunning, browser, pages, startFailed,
                   exitStatus, closeCalls>>
    /\ MainFrame

\* capture_screenshots_job returns (line 77); the immediate run returns
\* into start(), which goes on to line 110
JobReturn(r) ==
    /\ MainSuspended
    /\ run[r].st = "logged"
    /\ run' = [run EXCEPT ![r] = IdleRun]
    /\ pc' = IF r = "imm" THEN "loop" ELSE pc
    /\ UNCHANGED <<running, schedRunning, browser, pages, startFailed,
                   exitStatus, closeCalls>>
    /\ MainFrame

\* while self.running   (line 110)
LoopCheck ==
    /\ pc = "loop"
    /\ pc' = IF LoopContinues(running) THEN "sleep" ELSE "finally"
    /\ UNCHANGED <<running, schedRunning, browser, pages, run, startFailed,
                   exitStatus, closeCalls>>
    /\ MainFrame

\* await asyncio.sleep(1) returns   (line 111)
Sleep ==
    /\ pc = "sleep"
    /\ pc' = "loop"
    /\ UNCHANGED <<running, schedRunning, browser, pages, run, startFailed,
                   exitStatus, closeCalls>>
    /\ MainFrame

\* a stop() that leaves the scheduler alone
ShutdownSkipped(s) == s

\* `if self.scheduler.running: self.scheduler.shutdown()` (lines 124-125):
\* scheduler.running afterwards
ShutdownScheduler(s) == FALSE

\* stop() up to its await (lines 118, 122-127, 53): the scheduler is shut
\* down if it runs; a job coroutine still running is cancelled or left
\* alone, as the scheduler library decides; close_browser returns at once
\* when self.browser is None
StopScheduler ==
    /\ pc = "finally"
    /\ schedRunning' = ShutdownScheduler(schedRunning)
    /\ \E cancels \in BOOLEAN :
         run' = [run EXCEPT !["tick"].cancelled =
                   schedRunning /\ cancels /\ run["tick"].st = "capturing"]
    /\ pc' = IF BrowserInitialized(browser) THEN "close_browser" ELSE "stopped"
    /\ closeCalls' = IF BrowserInitialized(browser)
                     THEN closeCalls + 1 ELSE closeCalls
    /\ UNCHANGED <<running, browser, pages, startFailed, exitStatus>>
    /\ MainFrame

\* await self.browser.close() (line 54), first half: the browser shuts down
\* and its pages go with it, so every browser call still pending raises;
\* self.browser keeps referring to the closed browser
BrowserCloses ==
    /\ pc = "close_browser"
    /\ pc' = "closing"
    /\ browser' = "closed"
    /\ pages' = {}
    /\ UNCHANGED <<running, schedRunning, run, startFailed, exitStatus,
                   closeCalls>>
    /\ MainFrame

\* await self.browser.close() returns to close_browser, which returns to
\* stop(), which logs and returns   (lines 54-55, 129)
StopReturns ==
    /\ pc = "closing"
    /\ pc' = "stopped"
    /\ UNCHANGED <<running, schedRunning, browser, pages, run, startFailed,
                   exitStatus, closeCalls>>
    /\ MainFrame

\* start() and main() return and asyncio.run() ends the event loop, which
\* cancels the tasks that are left   (lines 132-145)
Exit ==
    /\ pc = "stopped"
    /\ pc' = "exited"
    /\ exitStatus' = ExitStatusOf(StartPropagates(startFailed))
    /\ run' = [r \in RunIds |-> IdleRun]
    /\ UNCHANGED <<running, schedRunning, browser, pages, startFailed,
                   closeCalls>>
    /\ MainFrame

TickFrame == UNCHANGED <<pc, running, schedRunning, browser, pages, sigEarly,
                         sigRunning, startFailed, exitStatus, closeCalls,
                         testPhase>>

\* an interval tick (line 93) with no instance of the job running: the
\* scheduler starts capture_screenshots_job as a task of the event loop
TickRun ==
    /\ schedRunning
    /\ MainSuspended
    /\ ~MaxInstancesReached(run)
    /\ run' = [run EXCEPT !["tick"] = StartJob(browser)]
    /\ lastTick' = "run"
    /\ TickFrame

\* an interval tick with max_instances reached: the scheduler skips the run
TickSkipped ==
    /\ schedRunning
    /\ MainSuspended
    /\ MaxInstancesReached(run)
    /\ run' = run
    /\ lastTick' = "skipped"
    /\ TickFrame

\* SIGINT or SIGTERM delivered (lines 27-28, 55-58)
Signal ==
    /\ pc # "exited"
    /\ running' = SignalHandlerSets
    /\ sigRunning' = (sigRunning \/ running)
    /\ sigEarly' = (sigEarly \/ pc \in EarlyPcs)
    /\ UNCHANGED <<pc, schedRunning, browser, pages, run, lastTick,
                   startFailed, exitStatus, closeCalls, testPhase>>

MainStep ==
    \/ StartBrowserOk
    \/ StartBrowserFails
    \/ AddJobAndStart
    \/ SetRunning
    \/ InitialCapture
    \/ LoopCheck
    \/ Sleep
    \/ StopScheduler
    \/ BrowserCloses
    \/ StopReturns
    \/ Exit

RunStep(r) ==
    \/ NewPage(r)
    \/ SetViewport(r)
    \/ Goto(r)
    \/ WaitForChartLoad(r)
    \/ ConfigureChartView(r)
    \/ Screenshot(r)
    \/ Finally(r)
    \/ CancelDelivered(r)
    \/ JobLog(r)
    \/ JobReturn(r)

Next ==
    \/ MainStep
    \/ \E r \in RunIds : RunStep(r)
    \/ TickRun
    \/ TickSkipped
    \/ Signal

Spec == Init /\ [][Next]_vars

----------------------------------------------------------------------------
(* src/test_pipeline.py: start() runs as a task under                      *)
(* asyncio.wait_for(..., timeout=120); on the timeout the test stops the   *)
(* pipeline itself                                                         *)

\* the timeout of wait_for (line 19) cancels the task of start() at the
\* await it is suspended in and waits for the task to end.  CancelledError
\* passes `except Exception` (line 115), so from lines 88 and 111 start()
\* goes to its finally clause; from line 107 the error first unwinds the
\* immediate run; inside stop() it ends stop() and with it start()
TestTimeout ==
    /\ testPhase = "none"
    /\ testPhase' = "timeout"
    /\ \/ /\ pc \in {"start_browser", "sleep"}
          /\ pc' = "finally"
          /\ run' = run
       \/ /\ pc = "await_initial"
          /\ run["imm"].st = "capturing"
          /\ pc' = "cancelling"
          /\ run' = [run EXCEPT !["imm"].cancelled = TRUE]
       \/ /\ pc \in {"close_browser", "closing"}
          /\ pc' = "stopped"
          /\ run' = run
    /\ UNCHANGED <<running, schedRunning, browser, pages, lastTick, sigEarly,
                   sigRunning, startFailed, exitStatus, closeCalls>>

\* the CancelledError has left capture_screenshots_job and reaches the
\* finally clause of start()   (lines 107, 117-118)
TestCancelReachesStart ==
    /\ pc = "cancelling"
    /\ run["imm"].st = "idle"
    /\ pc' = "finally"
    /\ UNCHANGED <<running, schedRunning, browser, pages, run, startFailed,
                   exitStatus, closeCalls>>
    /\ MainFrame

\* the except clause of the test (lines 20-23), once the cancelled start()
\* has ended: pipeline.running = False and stop() again, up to its await
TestSecondStop ==
    /\ testPhase = "timeout"
    /\ pc = "stopped"
    /\ testPhase' = "second_stop"
    /\ running' = FALSE
    /\ schedRunning' = ShutdownScheduler(schedRunning)
    /\ pc' = IF BrowserInitialized(browser) THEN "close_browser" ELSE "stopped"
    /\ closeCalls' = IF BrowserInitialized(browser)
                     THEN closeCalls + 1 ELSE closeCalls
    /\ UNCHANGED <<browser, pages, run, lastTick, sigEarly, sigRunning,
                   startFailed, exitStatus>>

\* test_pipeline returns and asyncio.run() ends the event loop (lines 24,
\* 31-33): after start() has returned by itself, or after the second stop()
TestExit ==
    /\ testPhase # "timeout"
    /\ Exit

TestNext ==
    \/ StartBrowserOk
    \/ StartBrowserFails
    \/ AddJobAndStart
    \/ SetRunning
    \/ InitialCapture
    \/ LoopCheck
    \/ Sleep
    \/ StopScheduler
    \/ BrowserCloses
    \/ StopReturns
    \/ TestTimeout
    \/ TestCancelReachesStart
    \/ TestSecondStop
    \/ TestExit
    \/ \E r \in RunIds : RunStep(r)
    \/ TickRun
    \/ TickSkipped
    \/ Signal

TestSpec == Init /\ [][TestNext]_vars

\* the event loop resumes every task whose awaited call has returned, and
\* every browser call returns or times out
LiveSpec ==
    /\ Spec
    /\ WF_vars(MainStep)
    /\ \A r \in RunIds : WF_vars(RunStep(r))

TypeOK ==
    /\ pc \in {"start_browser", "add_job", "set_running", "initial_capture",
               "await_initial", "loop", "sleep", "finally", "close_browser",
               "closing", "stopped", "exited", "cancelling"}
    /\ running \in BOOLEAN
    /\ schedRunning \in BOOLEAN
    /\ browser \in {"none", "open", "closed"}
    /\ pages \subseteq RunIds
    /\ \A r \in RunIds :
         /\ run[r].st \in {"idle", "capturing", "logging", "logged"}
         /\ run[r].idx \in 1..(Len(CRYPTO_SYMBOLS) + 1)
         /\ DOMAIN run[r].results \subseteq SymbolNames
    /\ lastTick \in {"none", "run", "skipped"}
    /\ exitStatus \in {-1, 0, 1}
    /\ closeCalls \in 0..2
    /\ testPhase \in {"none", "timeout", "second_stop"}

----------------------------------------------------------------------------
(* Properties                                                              *)

\* a run is in progress from the call of capture_screenshots_job to its return
InProgress(r) == run[r].st # "idle"

\* run r is inside capture_screenshot with its page open
InFlight(r) == run[r].st = "capturing" /\ run[r].page

\* C1: at most one aggregation run is in progress in every reachable state;
\* a tick that fires while a run (the immediate one or a tick-started one)
\* has not finished starts no second run.
C1_AtMostOneRun == ~(InProgress("imm") /\ InProgress("tick"))

\* C2: when capture_all_screenshots returns, the keys of its mapping are
\* exactly the configured symbol names and every value is a path or None.
C2_ResultKeys ==
    \A r \in RunIds :
        run[r].st = "logging" =>
            /\ DOMAIN run[r].results = SymbolNames
            /\ \A s \in SymbolNames : run[r].results[s] \in {"path", "None"}

\* C2 witness: a run has returned a mapping with a path and a None in it
C2_Witness ==
    \E r \in RunIds :
        /\ run[r].st = "logging"
        /\ \E s, t \in DOMAIN run[r].results :
             run[r].results[s] = "path" /\ run[r].results[t] = "None"

\* C3: a symbol whose navigation failed has outcome None and no file, and
\* it takes nothing from the others: the run still returns an outcome for
\* every symbol, and each other symbol has a path exactly when its own
\* screenshot was written.
C3_NavFailureLocal ==
    \A r \in RunIds :
        /\ run[r].navFailed \cap run[r].written = {}
        /\ \A s \in run[r].navFailed \cap DOMAIN run[r].results :
             run[r].results[s] = "None"
        /\ run[r].st = "logging" =>
             /\ run[r].navFailed \subseteq DOMAIN run[r].results
             /\ \A t \in SymbolNames \ run[r].navFailed :
                  /\ t \in DOMAIN run[r].results
                  /\ run[r].results[t] = "path" <=> t \in run[r].written

\* C3 witness: navigation failed for the first symbol and a later symbol of
\* the same run was captured
C3_Witness ==
    \E r \in RunIds :
        /\ run[r].st = "logging"
        /\ CRYPTO_SYMBOLS[1] \in run[r].navFailed
        /\ run[r].results[CRYPTO_SYMBOLS[2]] = "path"

\* C4: once a signal has been handled by a running pipeline, no interval
\* tick starts an aggregation run any more.
C4_NoRunAfterSignal ==
    [][(sigRunning /\ ~InProgress("tick")) => ~InProgress("tick")']_vars

\* C5: a signal handled while running is True leads to the stopped state,
\* with the scheduler shut down and the browser closed.
C5_SignalLeadsToStopped ==
    sigRunning ~> (/\ pc \in {"stopped", "exited"}
                   /\ ~schedRunning
                   /\ browser = "closed")

\* C5 witness: stop() has returned after a signal that came while running
C5_Witness ==
    /\ sigRunning
    /\ pc = "stopped"
    /\ ~schedRunning
    /\ browser = "closed"

\* C6: while stop() closes the browser, and once the browser is closed, no
\* run is between opening a page and returning its outcome.
C6_NoCloseDuringCapture ==
    (pc \in {"close_browser", "closing"} \/ browser = "closed") =>
        \A r \in RunIds : ~InFlight(r)

\* C7: when start_browser fails, the pipeline never runs, performs no
\* aggregation run, and the process exits with a non-zero status.
C7_StartFailureFatal ==
    startFailed =>
        /\ ~running
        /\ \A r \in RunIds : ~InProgress(r)
        /\ pc = "exited" => exitStatus # 0

\* C8: a page is open only inside the capture_screenshot call that opened
\* it; with no capture_screenshot call in progress no page is open.
C8_PagesClosed ==
    /\ \A r \in RunIds : r \in pages => InFlight(r)
    /\ (\A r \in RunIds : run[r].st # "capturing") => Cardinality(pages) = 0

\* C8 witness: a run has returned from its last capture_screenshot, with
\* successes and failures behind it, and every page is closed
C8_Witness ==
    /\ pages = {}
    /\ \A r \in RunIds : run[r].st # "capturing"
    /\ \E r \in RunIds :
         /\ run[r].st = "logging"
         /\ run[r].navFailed # {}
         /\ run[r].written # {}

\* C9: after stop() has returned no page is open and no capture is in
\* progress.
C9_NothingLeftAfterStop ==
    pc = "stopped" =>
        /\ pages = {}
        /\ \A r \in RunIds : run[r].st # "capturing"

\* capture_screenshot is called for run r in this step and gets past line 92
CallPassesCheck(r) ==
    /\ run'[r].st = "capturing"
    /\ run'[r].step = "new_page"
    /\ run[r].st = "idle" \/ run[r].idx # run'[r].idx

\* C10: capture_screenshot called without a live browser (never started, or
\* closed) fails with the initialization error of line 92 and opens no page.
C10_NoLiveBrowserRaises ==
    [][\A r \in RunIds : CallPassesCheck(r) => browser = "open"]_vars

\* C11: a successful start() opens the browser, then registers the trigger,
\* then makes exactly one immediate run, then waits; no run begins before
\* the browser is ready, and no tick is served before the immediate run
\* has begun.
C11_StartOrder ==
    /\ [](/\ schedRunning => browser # "none"
          /\ \A r \in RunIds : InProgress(r) => browser # "none"
          /\ InProgress("imm") <=> pc = "await_initial"
          /\ pc \in EarlyPcs \cup {"initial_capture"} =>
               lastTick = "none" /\ ~InProgress("tick")
          /\ pc \in {"initial_capture", "await_initial", "loop", "sleep"} =>
               schedRunning /\ browser = "open")
    /\ [][/\ pc' = "add_job" => pc \in {"start_browser", "add_job"}
          /\ pc' = "set_running" => pc \in {"add_job", "set_running"}
          /\ pc' = "initial_capture" => pc \in {"set_running", "initial_capture"}
          /\ pc' = "await_initial" => pc \in {"initial_capture", "await_initial"}
          /\ pc' = "start_browser" => pc = "start_browser"
          /\ pc' \in {"loop", "sleep"} => pc \in {"await_initial", "loop", "sleep"}
          /\ (~InProgress("imm") /\ InProgress("imm")') =>
               pc = "initial_capture"]_vars

\* C11 witness: start() is in its idle wait after the immediate run and a
\* tick has been served
C11_Witness ==
    /\ pc = "sleep"
    /\ browser = "open"
    /\ schedRunning
    /\ lastTick = "run"
    /\ ~InProgress("imm")

\* C12: within a run capture_screenshot is called for the symbols in
\* configuration order, none twice, each call after the one before it has
\* returned and closed its page; a run that returns has called it once for
\* every symbol; and every run begins again with the first symbol, whatever
\* failed in the run before.
C12_OncePerSymbolInOrder ==
    /\ [](\A r \in RunIds :
            /\ Len(run[r].attempts) <= Len(CRYPTO_SYMBOLS)
            /\ run[r].attempts = SubSeq(CRYPTO_SYMBOLS, 1, Len(run[r].attempts))
            /\ run[r].st = "capturing" =>
                 /\ Len(run[r].attempts) = run[r].idx
                 /\ DOMAIN run[r].results =
                      {run[r].attempts[j] : j \in 1..(run[r].idx - 1)}
                 /\ run[r].step = "new_page" => r \notin pages
            /\ run[r].st = "logging" => run[r].attempts = CRYPTO_SYMBOLS)
    /\ [][\A r \in RunIds :
            (~InProgress(r) /\ InProgress(r)') =>
                /\ run'[r].attempts = <<CRYPTO_SYMBOLS[1]>>
                /\ run'[r].results = EmptyDict]_vars

\* C12 witness: a run has returned after the capture of its first symbol
\* failed and the capture of its second symbol succeeded
C12_Witness ==
    \E r \in RunIds :
        /\ run[r].st = "logging"
        /\ run[r].attempts = CRYPTO_SYMBOLS
        /\ run[r].results[CRYPTO_SYMBOLS[1]] = "None"
        /\ run[r].results[CRYPTO_SYMBOLS[2]] = "path"

\* C13: at most one browser page is open in every reachable state.
C13_AtMostOnePage == Cardinality(pages) <= 1

\* C14: a failure of _wait_for_chart_load or of _configure_chart_view does
\* not change the outcome: the capture goes on to the next step, the
\* screenshot step follows a successful navigation, and the outcome is a
\* path exactly when the screenshot was written, failed best-effort step or
\* not.
C14_BestEffortNonFatal ==
    /\ [](\A r \in RunIds :
            /\ (run[r].st = "capturing" /\ run[r].step = "close"
                  /\ run[r].ret # "cancel") =>
                 (run[r].ret = "path" <=> Sym(r) \in run[r].written)
            /\ run[r].bestEffortFailed =>
                 /\ run[r].st = "capturing"
                 /\ run[r].step \in {"configure", "screenshot", "close"}
                 /\ Sym(r) \notin run[r].navFailed)
    /\ [][\A r \in RunIds :
            /\ (run'[r].bestEffortFailed /\ ~run[r].bestEffortFailed) =>
                 /\ run'[r].step \in {"configure", "screenshot"}
                 /\ run'[r].ret = run[r].ret
            /\ (run[r].st = "capturing" /\ run'[r].st = "capturing"
                  /\ run'[r].step # run[r].step /\ run'[r].ret # "cancel") =>
                 /\ run[r].step = "wait" => run'[r].step = "configure"
                 /\ run[r].step = "configure" => run'[r].step = "screenshot"
                 /\ run'[r].step = "screenshot" => run[r].step = "configure"]_vars

\* C14 witness: a capture returns a path although a best-effort step failed
C14_Witness ==
    \E r \in RunIds :
        /\ run[r].st = "capturing"
        /\ run[r].step = "close"
        /\ run[r].ret = "path"
        /\ run[r].bestEffortFailed

\* C15: the summary a run logs is k/n, n the number of configured symbols
\* and k the number of symbols whose outcome is a path; every symbol is
\* logged once, as success or as failure, and k lines are success lines.
C15_SummaryCounts ==
    \A r \in RunIds :
        run[r].st = "logged" =>
            /\ run[r].summary[2] = Len(CRYPTO_SYMBOLS)
            /\ run[r].summary[1] =
                 Cardinality({s \in SymbolNames : run[r].results[s] = "path"})
            /\ run[r].summary[1] = Cardinality(run[r].written)
            /\ \A s \in SymbolNames :
                 Cardinality({i \in DOMAIN run[r].lines :
                                run[r].lines[i][1] = s}) = 1
            /\ \A i \in DOMAIN run[r].lines :
                 /\ run[r].lines[i][1] \in SymbolNames
                 /\ run[r].lines[i][2] = "ok" <=>
                      run[r].results[run[r].lines[i][1]] = "path"
            /\ Cardinality({i \in DOMAIN run[r].lines :
                              run[r].lines[i][2] = "ok"}) = run[r].summary[1]

\* C15 witness: a run has logged 1/3
C15_Witness ==
    \E r \in RunIds :
        /\ run[r].st = "logged"
        /\ run[r].summary = <<1, Len(CRYPTO_SYMBOLS)>>

\* C16: stop() shuts the scheduler down before it closes the browser, and
\* stopped is final: once stop() has returned no tick is served, no run
\* begins and the browser is not opened again.
C16_StoppedIsTerminal ==
    /\ [](/\ pc \in {"close_browser", "closing", "stopped", "exited"} =>
               ~schedRunning
          /\ browser = "closed" => ~schedRunning)
    /\ [][(pc \in {"stopped", "exited"}) =>
            (/\ pc' \in {"stopped", "exited"}
             /\ lastTick' = lastTick
             /\ browser' = browser
             /\ ~schedRunning'
             /\ \A r \in RunIds : (InProgress(r)' => InProgress(r)))]_vars

\* C16 witness: stop() has returned after a run in which ticks were served
C16_Witness ==
    /\ pc = "stopped"
    /\ browser = "closed"
    /\ lastTick = "run"

\* C17: a run ends only by returning, after one capture attempt for every
\* symbol, with no exception leaving capture_screenshots_job; a run in which
\* every navigation failed returns every symbol mapped to None.
C17_RunAlwaysReturns ==
    /\ [](\A r \in RunIds :
            (run[r].st = "logging" /\ run[r].navFailed = SymbolNames) =>
                \A s \in SymbolNames : run[r].results[s] = "None")
    /\ [][\A r \in RunIds :
            (InProgress(r) /\ ~InProgress(r)') =>
                (run[r].st = "logged" /\ run[r].attempts = CRYPTO_SYMBOLS)]_vars

\* C18: a signal handled at any time after construction, also before
\* start() has set running to True, leads to the pipeline leaving its loop
\* and stopping.
C18_SignalNotLost ==
    (sigEarly \/ sigRunning) ~> (pc \in {"stopped", "exited"})

\* C19: over the lifetime of one pipeline browser.close() is called at most
\* once, also when the test calls stop() again after the stop() of start()'s
\* finally clause.
C19_ClosedAtMostOnce == closeCalls <= 1

====
